---- MODULE Spec2Model ----
(***************************************************************************)
(* Model of the BigQuery facade of src/src/index.ts (class BigQuery): the  *)
(* connection handle, the two name-keyed registries, and every public      *)
(* operation as a sequence of steps separated by the remote calls it       *)
(* awaits.  The remote warehouse and any other actor using it are the      *)
(* environment.                                                            *)
(***************************************************************************)
EXTENDS Integers, Sequences, FiniteSets, TLC

(* ---------------------------- bounds ---------------------------------- *)
MaxInits == 2       \* BQ client objects constructed by init over a run
MaxExternal == 1    \* remote changes made by actors other than the facade

(* The caller of Spec awaits each call before it issues the next one. *)
Calls == {1}

DatasetNames == {"d", "d.t"}
TableNames == {"t", "t.t"}
NoSchema == "null"
Schemas == {"s1"}
QueryTexts == {"q1"}
ErrorMessages == {"e1", "e2"}
RowSeqs == {<<>>, <<"r1", "r2">>}

(* Own-property names every plain object inherits from Object.prototype.  *)
ObjectProtoNames == {"constructor"}
(* this.config.projectId *)
ProjectId == "p1"
(* Names a caller may look up without having provisioned them. *)
LookupNames == DatasetNames \cup ObjectProtoNames

(* ---------------------------- values ---------------------------------- *)
Null == [kind |-> "null"]
Undefined == [kind |-> "undefined"]
Inherited(k) == [kind |-> "inherited", id |-> k]
BQClient(n) == [kind |-> "BQ", id |-> n]
DatasetHandle(d) == [kind |-> "Dataset", id |-> d]
TableHandle(ds, t) == [kind |-> "Table", dataset |-> ds.id, id |-> t]

ErrorValue(n, m) == [name |-> n, message |-> m]
NullDeref == ErrorValue("TypeError", "Cannot read properties of null")
NotAFunction == ErrorValue("TypeError", "dataset.table is not a function")
ApiError(m) == ErrorValue("ApiError", m)
TransportErrors == {ApiError("remote failure")}

Facade == [kind |-> "BigQuery"]

NoResult == [status |-> "none"]
Resolved(v) == [status |-> "resolved", value |-> v]
Rejected(e) == [status |-> "rejected", error |-> e]
Returned(v) == [status |-> "returned", value |-> v]
Threw(e) == [status |-> "threw", error |-> e]

VARIABLES client, nextClient, datasets, tables, errorListener,
          remoteDatasets, remoteTables, externalOps, everDeleted, call,
          completedDatasets, completedTables

vars == <<client, nextClient, datasets, tables, errorListener,
          remoteDatasets, remoteTables, externalOps, everDeleted, call,
          completedDatasets, completedTables>>

facade == <<client, nextClient, datasets, tables, errorListener>>
remote == <<remoteDatasets, remoteTables, externalOps, everDeleted>>
history == <<completedDatasets, completedTables>>

(* ------------------------- registries --------------------------------- *)
EmptyRecord == [k \in {} |-> Undefined]

(* obj[k] on a plain object: own property, else the prototype chain.      *)
Lookup(obj, k) ==
  IF k \in DOMAIN obj THEN obj[k]
  ELSE IF k \in ObjectProtoNames THEN Inherited(k)
  ELSE Undefined

(* obj[k] = v *)
Assign(obj, k, v) ==
  [x \in (DOMAIN obj) \cup {k} |-> IF x = k THEN v ELSE obj[x]]

Truthy(v) == v.kind \notin {"undefined", "null"}

(* `${datasetName}.${tableName}` *)
TableKey(d, t) == d \o "." \o t

(* ---------------------------- events ---------------------------------- *)
Event(type, message) == [type |-> type, message |-> message]
LogEvent(m) == Event("log", m)
SuccessEvent(m) == Event("success", m)

Quoted(s) == "\"" \o s \o "\""

(* What the caller holds of the updateAvailable call it made just before. *)
NoAnswer == [kind |-> "none"]
Answer(d, t, metadata, value) ==
  [kind |-> "answer", d |-> d, t |-> t, buffer |-> metadata.streamingBuffer = "buffer",
   value |-> value]

IdleCall ==
  [op |-> "idle", pc |-> "idle", d |-> "", t |-> "", schema |-> NoSchema,
   q |-> "", local |-> Undefined, calls |-> <<>>, events |-> <<>>,
   result |-> NoResult, probed |-> <<>>, fault |-> FALSE,
   raised |-> Undefined, prev |-> Undefined, conn |-> Null, last |-> NoAnswer]

(* Variant of Idle: a call starts only when no other call is in flight. *)
Idle_Exclusive(c) == \A k \in DOMAIN call : call[k].op = "idle"

Idle(c) == call[c].op = "idle"

(* A call starts: its record, with the connection it found. *)
Start(c, rec) == call' = [call EXCEPT ![c] = [rec EXCEPT !.conn = client]]

Init ==
  /\ client = Null
  /\ nextClient = 0
  /\ datasets = EmptyRecord
  /\ tables = EmptyRecord
  /\ errorListener \in BOOLEAN
  /\ remoteDatasets = {}
  /\ remoteTables = {}
  /\ externalOps = 0
  /\ everDeleted = {}
  /\ call = [c \in Calls |-> IdleCall]
  /\ completedDatasets = {}
  /\ completedTables = {}

Emit(c, evs) == call[c].events \o evs

(* ------------------------------ init ---------------------------------- *)
(* init(): log, construct the client, issue the getDatasets probe.        *)
InitCall(c) ==
  /\ Idle(c)
  /\ nextClient < MaxInits
  /\ nextClient' = nextClient + 1
  /\ Start(c, [IdleCall EXCEPT !.op = "init", !.pc = "probe",
                 !.local = BQClient(nextClient + 1),
                 !.calls = <<[call |-> "getDatasets", arg |-> ""]>>,
                 !.events = <<LogEvent("Using config")>>])
  /\ UNCHANGED <<client, datasets, tables, errorListener, remote, history>>

ConnectedMessage == "Successfully connected on project " \o ProjectId

(* Variant of InitStore: the client is stored without announcing the connection. *)
InitStore_Silent(c) ==
  /\ client' = call[c].local
  /\ call' = [call EXCEPT ![c].pc = "done", ![c].result = Resolved(Facade)]

(* .then(() => { this.client = client; this.success(...); return this })  *)
InitStore(c) ==
  /\ client' = call[c].local
  /\ call' = [call EXCEPT ![c].pc = "done",
                ![c].events = Emit(c, <<SuccessEvent(ConnectedMessage)>>),
                ![c].result = Resolved(Facade)]

(* Variant of InitFail: the client is stored although the probe failed. *)
InitFail_Stores(c, e) ==
  /\ call' = [call EXCEPT ![c].pc = "done", ![c].fault = (e \in TransportErrors), ![c].raised = e,
                ![c].result = Rejected(e)]
  /\ client' = call[c].local

(* getDatasets() rejected: the promise init returned rejects with the same error *)
InitFail(c, e) ==
  /\ call' = [call EXCEPT ![c].pc = "done", ![c].fault = (e \in TransportErrors), ![c].raised = e,
                ![c].result = Rejected(e)]
  /\ UNCHANGED client

InitProbeDone(c) ==
  /\ call[c].op = "init" /\ call[c].pc = "probe"
  /\ \/ InitStore(c)
     \/ \E e \in TransportErrors : InitFail(c, e)
  /\ UNCHANGED <<nextClient, datasets, tables, errorListener, remote, history>>

(* --------------------------- createDataSet ---------------------------- *)
DatasetCreatedMessage(d) == "Dataset " \o Quoted(d) \o " created"
DatasetExistsMessage(d) == "Dataset " \o Quoted(d) \o " already exists"

(* createDataSet(datasetName): log, this.client.dataset(name), exists().  *)
CreateDataSetCall(c, d) ==
  /\ Idle(c)
  /\ LET base == [IdleCall EXCEPT !.op = "createDataSet", !.d = d,
                    !.events = <<LogEvent("Creating dataset " \o d)>>,
                    !.prev = Lookup(datasets, d)]
     IN IF client = Null
        THEN Start(c, [base EXCEPT !.pc = "done", !.result = Threw(NullDeref)])
        ELSE Start(c, [base EXCEPT !.pc = "exists",
                         !.local = DatasetHandle(d),
                         !.calls = <<[call |-> "dataset.exists", arg |-> d]>>])
  /\ UNCHANGED <<facade, remote, history>>

(* Variant of DatasetCacheWrite: the handle is returned but not stored. *)
DatasetCacheWrite_NoStore(c, probed, msg) ==
  /\ UNCHANGED datasets
  /\ completedDatasets' = completedDatasets \cup {call[c].d}
  /\ call' = [call EXCEPT ![c].pc = "done", ![c].probed = probed,
                ![c].events = Emit(c, <<SuccessEvent(msg)>>),
                ![c].result = Resolved(call[c].local)]

(* final .then(() => { this.datasets[datasetName] = dataset; return dataset }) *)
DatasetCacheWrite(c, probed, msg) ==
  /\ datasets' = Assign(datasets, call[c].d, call[c].local)
  /\ completedDatasets' = completedDatasets \cup {call[c].d}
  /\ call' = [call EXCEPT ![c].pc = "done", ![c].probed = probed,
                ![c].events = Emit(c, <<SuccessEvent(msg)>>),
                ![c].result = Resolved(call[c].local)]

(* Variant of DatasetExistsBranch: the create is issued whatever the probe said. *)
DatasetExistsBranch_AlwaysCreate(c, exists) ==
  /\ call' = [call EXCEPT ![c].pc = "create", ![c].probed = <<exists>>,
                ![c].calls = Append(call[c].calls,
                               [call |-> "dataset.create", arg |-> call[c].d])]
  /\ UNCHANGED <<datasets, completedDatasets>>

(* Variant of DatasetExistsBranch: "created" is announced when the create is issued. *)
DatasetExistsBranch_EarlySuccess(c, exists) ==
  IF exists = FALSE
  THEN /\ call' = [call EXCEPT ![c].pc = "create", ![c].probed = <<exists>>,
                     ![c].events = Emit(c, <<SuccessEvent(DatasetCreatedMessage(call[c].d))>>),
                     ![c].calls = Append(call[c].calls,
                                    [call |-> "dataset.create", arg |-> call[c].d])]
       /\ UNCHANGED <<datasets, completedDatasets>>
  ELSE DatasetCacheWrite(c, <<exists>>, DatasetExistsMessage(call[c].d))

(* .then(exists => { if (exists === false) return dataset.create()...     *)
DatasetExistsBranch(c, exists) ==
  IF exists = FALSE
  THEN /\ call' = [call EXCEPT ![c].pc = "create", ![c].probed = <<exists>>,
                     ![c].calls = Append(call[c].calls,
                                    [call |-> "dataset.create", arg |-> call[c].d])]
       /\ UNCHANGED <<datasets, completedDatasets>>
  ELSE DatasetCacheWrite(c, <<exists>>, DatasetExistsMessage(call[c].d))

DatasetExistsDone(c) ==
  /\ call[c].op = "createDataSet" /\ call[c].pc = "exists"
  /\ \/ DatasetExistsBranch(c, call[c].d \in remoteDatasets)
     \/ /\ \E e \in TransportErrors :
             call' = [call EXCEPT ![c].pc = "done", ![c].fault = (e \in TransportErrors), ![c].raised = e,
                        ![c].result = Rejected(e)]
        /\ UNCHANGED <<datasets, completedDatasets>>
  /\ UNCHANGED <<client, nextClient, tables, errorListener, remote, completedTables>>

(* dataset.create().then(() => { this.success(...created) }) and the cache write *)
DatasetCreateDone(c) ==
  /\ call[c].op = "createDataSet" /\ call[c].pc = "create"
  /\ \/ /\ call[c].d \notin remoteDatasets
        /\ remoteDatasets' = remoteDatasets \cup {call[c].d}
        /\ DatasetCacheWrite(c, call[c].probed, DatasetCreatedMessage(call[c].d))
     \/ /\ \E e \in TransportErrors \cup
                    (IF call[c].d \in remoteDatasets
                     THEN {ApiError("Already Exists")} ELSE {}) :
             call' = [call EXCEPT ![c].pc = "done", ![c].fault = (e \in TransportErrors), ![c].raised = e,
                        ![c].result = Rejected(e)]
        /\ UNCHANGED <<datasets, completedDatasets, remoteDatasets>>
  /\ UNCHANGED <<client, nextClient, tables, errorListener, remoteTables,
                 externalOps, everDeleted, completedTables>>

(* ----------------------------- getDataset ----------------------------- *)
DatasetNotFound(d) ==
  ErrorValue("ReferenceError", "Dataset " \o Quoted(d) \o " not found")

(* getDataset: the looked-up value, or the ReferenceError it throws.      *)
getDataset(d) ==
  LET dataset == Lookup(datasets, d)
  IN IF ~Truthy(dataset) THEN Threw(DatasetNotFound(d)) ELSE Returned(dataset)

GetDatasetCall(c, d) ==
  /\ Idle(c)
  /\ Start(c, [IdleCall EXCEPT !.op = "getDataset", !.d = d, !.pc = "done",
                 !.prev = Lookup(datasets, d), !.result = getDataset(d)])
  /\ UNCHANGED <<facade, remote, history>>

(* ---------------------------- createTable ----------------------------- *)
TableCreatedMessage(d, t) == "Table " \o Quoted(TableKey(d, t)) \o " created"
TableExistsMessage(d, t) == "Table " \o Quoted(TableKey(d, t)) \o " already exists"
SchemaRequired(d, t) ==
  ErrorValue("ReferenceError",
             Quoted(TableKey(d, t)) \o " does not exists and no schema was given")

(* createTable(datasetName, tableName, schema = null): log, getDataset,   *)
(* dataset.table(tableName), table.exists().                              *)
CreateTableCall(c, d, t, schema) ==
  /\ Idle(c)
  /\ LET base == [IdleCall EXCEPT !.op = "createTable", !.d = d, !.t = t,
                    !.schema = schema,
                    !.events = <<LogEvent("Creating table " \o t \o " in " \o d)>>,
                    !.prev = Lookup(tables, TableKey(d, t))]
         found == getDataset(d)
     IN IF found.status = "threw"
        THEN Start(c, [base EXCEPT !.pc = "done", !.result = found])
        ELSE IF found.value.kind # "Dataset"
        THEN Start(c, [base EXCEPT !.pc = "done", !.result = Threw(NotAFunction)])
        ELSE Start(c, [base EXCEPT !.pc = "exists",
                         !.local = TableHandle(found.value, t),
                         !.calls = <<[call |-> "table.exists", arg |-> ""]>>])
  /\ UNCHANGED <<facade, remote, history>>

(* Variant of TableCacheWrite: the handle is stored under the table name alone. *)
TableCacheWrite_TableNameKey(c, probed, msg) ==
  /\ tables' = Assign(tables, call[c].t, call[c].local)
  /\ completedTables' = completedTables \cup {<<call[c].d, call[c].t>>}
  /\ call' = [call EXCEPT ![c].pc = "done", ![c].probed = probed,
                ![c].events = Emit(c, <<SuccessEvent(msg)>>),
                ![c].result = Resolved(call[c].local)]

(* final .then(() => { this.tables[`${d}.${t}`] = table; return table })  *)
TableCacheWrite(c, probed, msg) ==
  /\ tables' = Assign(tables, TableKey(call[c].d, call[c].t), call[c].local)
  /\ completedTables' = completedTables \cup {<<call[c].d, call[c].t>>}
  /\ call' = [call EXCEPT ![c].pc = "done", ![c].probed = probed,
                ![c].events = Emit(c, <<SuccessEvent(msg)>>),
                ![c].result = Resolved(call[c].local)]

(* Variant of TableExistsBranch: an absent table is created without asking for a schema. *)
TableExistsBranch_NoSchemaCheck(c, exists) ==
  IF exists = FALSE
  THEN /\ call' = [call EXCEPT ![c].pc = "create", ![c].probed = <<exists>>,
                     ![c].calls = Append(call[c].calls,
                                    [call |-> "table.create", arg |-> call[c].schema])]
       /\ UNCHANGED <<tables, completedTables>>
  ELSE TableCacheWrite(c, <<exists>>, TableExistsMessage(call[c].d, call[c].t))

(* Variant of TableExistsBranch: the create call is issued without the schema. *)
TableExistsBranch_DropsSchema(c, exists) ==
  IF exists = FALSE /\ call[c].schema = NoSchema
  THEN /\ call' = [call EXCEPT ![c].pc = "done", ![c].probed = <<exists>>,
                     ![c].result = Rejected(SchemaRequired(call[c].d, call[c].t))]
       /\ UNCHANGED <<tables, completedTables>>
  ELSE IF exists = FALSE /\ call[c].schema # NoSchema
  THEN /\ call' = [call EXCEPT ![c].pc = "create", ![c].probed = <<exists>>,
                     ![c].calls = Append(call[c].calls,
                                    [call |-> "table.create", arg |-> NoSchema])]
       /\ UNCHANGED <<tables, completedTables>>
  ELSE TableCacheWrite(c, <<exists>>, TableExistsMessage(call[c].d, call[c].t))

(* Variant of TableExistsBranch: a table found absent without a schema is dropped from the cache. *)
TableExistsBranch_Evicts(c, exists) ==
  IF exists = FALSE /\ call[c].schema = NoSchema
  THEN /\ call' = [call EXCEPT ![c].pc = "done", ![c].probed = <<exists>>,
                     ![c].result = Rejected(SchemaRequired(call[c].d, call[c].t))]
       /\ tables' = [k \in DOMAIN tables \ {TableKey(call[c].d, call[c].t)} |-> tables[k]]
       /\ UNCHANGED completedTables
  ELSE IF exists = FALSE /\ call[c].schema # NoSchema
  THEN /\ call' = [call EXCEPT ![c].pc = "create", ![c].probed = <<exists>>,
                     ![c].calls = Append(call[c].calls,
                                    [call |-> "table.create", arg |-> call[c].schema])]
       /\ UNCHANGED <<tables, completedTables>>
  ELSE TableCacheWrite(c, <<exists>>, TableExistsMessage(call[c].d, call[c].t))

(* .then(exists => { ... }) of createTable: the policy matrix.            *)
TableExistsBranch(c, exists) ==
  IF exists = FALSE /\ call[c].schema = NoSchema
  THEN /\ call' = [call EXCEPT ![c].pc = "done", ![c].probed = <<exists>>,
                     ![c].result = Rejected(SchemaRequired(call[c].d, call[c].t))]
       /\ UNCHANGED <<tables, completedTables>>
  ELSE IF exists = FALSE /\ call[c].schema # NoSchema
  THEN /\ call' = [call EXCEPT ![c].pc = "create", ![c].probed = <<exists>>,
                     ![c].calls = Append(call[c].calls,
                                    [call |-> "table.create", arg |-> call[c].schema])]
       /\ UNCHANGED <<tables, completedTables>>
  ELSE TableCacheWrite(c, <<exists>>, TableExistsMessage(call[c].d, call[c].t))

(* The remote table a handle addresses: (dataset id, table id).           *)
RemoteTable(h) == <<h.dataset, h.id>>

TableExistsDone(c) ==
  /\ call[c].op = "createTable" /\ call[c].pc = "exists"
  /\ \/ TableExistsBranch(c, RemoteTable(call[c].local) \in remoteTables)
     \/ /\ \E e \in TransportErrors :
             call' = [call EXCEPT ![c].pc = "done", ![c].fault = (e \in TransportErrors), ![c].raised = e,
                        ![c].result = Rejected(e)]
        /\ UNCHANGED <<tables, completedTables>>
  /\ UNCHANGED <<client, nextClient, datasets, errorListener, remote,
                 completedDatasets>>

(* table.create(options).then(() => { this.success(...created) }) and the cache write *)
TableCreateDone(c) ==
  /\ call[c].op = "createTable" /\ call[c].pc = "create"
  /\ LET rt == RemoteTable(call[c].local)
     IN \/ /\ rt[1] \in remoteDatasets /\ rt \notin remoteTables
           /\ remoteTables' = remoteTables \cup {rt}
           /\ TableCacheWrite(c, call[c].probed, TableCreatedMessage(call[c].d, call[c].t))
        \/ /\ \E e \in TransportErrors \cup
                       (IF rt \in remoteTables
                        THEN {ApiError("Already Exists")} ELSE {}) \cup
                       (IF rt[1] \notin remoteDatasets
                        THEN {ApiError("Not found: Dataset")} ELSE {}) :
                call' = [call EXCEPT ![c].pc = "done", ![c].fault = (e \in TransportErrors), ![c].raised = e,
                           ![c].result = Rejected(e)]
           /\ UNCHANGED <<tables, completedTables, remoteTables>>
  /\ UNCHANGED <<client, nextClient, datasets, errorListener, remoteDatasets,
                 externalOps, everDeleted, completedDatasets>>

(* ------------------------------ getTable ------------------------------ *)
TableNotFound(d, t) ==
  ErrorValue("ReferenceError",
             "Table " \o Quoted("<" \o t \o ">") \o " not found in "
               \o Quoted("<" \o d \o ">"))

(* Variant of getTable: the looked-up value is returned without the check. *)
getTable_NoThrow(d, t) == Returned(Lookup(tables, TableKey(d, t)))

getTable(d, t) ==
  LET table == Lookup(tables, TableKey(d, t))
  IN IF ~Truthy(table) THEN Threw(TableNotFound(d, t)) ELSE Returned(table)

GetTableCall(c, d, t) ==
  /\ Idle(c)
  /\ Start(c, [IdleCall EXCEPT !.op = "getTable", !.d = d, !.t = t, !.pc = "done",
                 !.prev = Lookup(tables, TableKey(d, t)),
                 !.result = getTable(d, t)])
  /\ UNCHANGED <<facade, remote, history>>

(* ------------------------------- insert ------------------------------- *)
RECURSIVE Join(_, _)
(* Array.prototype.join *)
Join(seq, sep) ==
  IF seq = <<>> THEN ""
  ELSE IF Len(seq) = 1 THEN seq[1]
  ELSE seq[1] \o sep \o Join(Tail(seq), sep)

(* Values of a row column (rows: Record<string, unknown>). *)
JsString(s) == [type |-> "string", v |-> s]
JsNumber(n) == [type |-> "number", v |-> n]
JsNaN == [type |-> "number", v |-> "NaN"]
JsNull == [type |-> "null", v |-> "null"]
JsDate(iso) == [type |-> "Date", v |-> iso]
IsoDate == "2020-01-01T00:00:00.000Z"
RowValues == {JsString("a"), JsNumber("1"), JsNaN, JsDate(IsoDate)}

(* One rejected row as the collaborator reports it: the reason and the row. *)
RowError(reason, x) == [reason |-> reason, row |-> x]
RowErrorSeqs ==
  {<<RowError("invalid", x)>> : x \in RowValues} \cup
  {<<RowError("invalid", JsString("a")), RowError("invalid", JsNumber("1"))>>}
PartialFailure(errs) ==
  [name |-> "PartialFailureError", message |-> "A failure occurred during this request.",
   errors |-> errs]
InsertFailures == TransportErrors \cup {PartialFailure(errs) : errs \in RowErrorSeqs}

(* JSON.stringify of one value: a string is quoted, NaN becomes null, a    *)
(* Date becomes the string of its toJSON().                                *)
JsonValue(x) ==
  IF x.type = "string" THEN Quoted(x.v)
  ELSE IF x.type = "Date" THEN Quoted(x.v)
  ELSE IF x.type = "number" /\ x.v = "NaN" THEN "null"
  ELSE x.v

JsonRowError(e) ==
  "{\"reason\":" \o Quoted(e.reason) \o ",\"row\":{\"v\":" \o JsonValue(e.row) \o "}}"

(* JSON.stringify(ex, null, 2) of a PartialFailureError: its own enumerable *)
(* properties (the indentation does not change what the text denotes).      *)
JsonStringify(ex) ==
  "{\"errors\":[" \o Join([i \in 1..Len(ex.errors) |-> JsonRowError(ex.errors[i])], ",")
     \o "],\"name\":" \o Quoted(ex.name) \o ",\"message\":" \o Quoted(ex.message) \o "}"

(* What JSON.parse can yield: strings, finite numbers and null. *)
JsonValues == {JsString("a"), JsString(IsoDate), JsNumber("1"), JsNull}
JsonRowErrorSeqs ==
  {<<RowError("invalid", x)>> : x \in JsonValues} \cup
  {<<RowError("invalid", x), RowError("invalid", y)>> : x, y \in JsonValues}
JsonSyntaxError == [name |-> "SyntaxError", message |-> "Unexpected token", errors |-> <<>>]

(* JSON.parse(text): the value whose JSON text it is, a SyntaxError otherwise. *)
JsonParse(text) ==
  LET docs == {PartialFailure(errs) : errs \in JsonRowErrorSeqs}
  IN IF \E p \in docs : JsonStringify(p) = text
     THEN CHOOSE p \in docs : JsonStringify(p) = text
     ELSE JsonSyntaxError

InsertResponse == [kind |-> "InsertRowsResponse"]

(* insert(rows, datasetName, tableName): getTable, table.insert(rows).    *)
InsertCall(c, d, t) ==
  /\ Idle(c)
  /\ LET base == [IdleCall EXCEPT !.op = "insert", !.d = d, !.t = t,
                    !.prev = Lookup(tables, TableKey(d, t))]
         found == getTable(d, t)
     IN IF found.status = "threw"
        THEN Start(c, [base EXCEPT !.pc = "done", !.result = found])
        ELSE Start(c, [base EXCEPT !.pc = "insert", !.local = found.value,
                         !.calls = <<[call |-> "table.insert", arg |-> "rows"]>>])
  /\ UNCHANGED <<facade, remote, history>>

(* Variant of InsertCatch: every failure is wrapped in a new Error. *)
InsertCatch_WrapsAll(ex) ==
  IF ex.name = "PartialFailureError"
  THEN Rejected(ErrorValue("Error", JsonStringify(ex)))
  ELSE Rejected(ErrorValue("Error", ex.message))

(* Variant of InsertCatch: the new Error carries the message of the failure only. *)
InsertCatch_MessageOnly(ex) ==
  IF ex.name = "PartialFailureError"
  THEN Rejected(ErrorValue("Error", ex.message))
  ELSE Rejected(ex)

(* .catch(ex => { if (ex.name === 'PartialFailureError') throw new Error(JSON...); throw ex }) *)
InsertCatch(ex) ==
  IF ex.name = "PartialFailureError"
  THEN Rejected(ErrorValue("Error", JsonStringify(ex)))
  ELSE Rejected(ex)

InsertDone(c) ==
  /\ call[c].op = "insert" /\ call[c].pc = "insert"
  /\ \/ call' = [call EXCEPT ![c].pc = "done", ![c].local = InsertResponse,
                   ![c].result = Resolved(InsertResponse)]
     \/ \E ex \in InsertFailures :
          call' = [call EXCEPT ![c].pc = "done", ![c].fault = (ex \in TransportErrors), ![c].raised = ex,
                     ![c].local = ex, ![c].result = InsertCatch(ex)]
  /\ UNCHANGED <<facade, remote, history>>

(* -------------------------------- query ------------------------------- *)
ErrorLists == {<<>>, <<"e1">>, <<"e1", "e2">>}
QueryResponses ==
  [kind : {"response"}, hasErrors : BOOLEAN, errors : ErrorLists,
   jobComplete : BOOLEAN, rows : RowSeqs]
(* A response without an errors field carries no list. *)
WellFormed(r) == ~r.hasErrors => r.errors = <<>>

JobNotComplete == ErrorValue("Error", "Job not complete: Might need to implement pagination")
UnhandledError == ErrorValue("Error [ERR_UNHANDLED_ERROR]", "Unhandled error.")

(* query(rawQuery, ...): an async function; createQueryJob(options).      *)
QueryCall(c, q) ==
  /\ Idle(c)
  /\ LET base == [IdleCall EXCEPT !.op = "query", !.q = q]
     IN IF client = Null
        THEN Start(c, [base EXCEPT !.pc = "done", !.result = Rejected(NullDeref)])
        ELSE Start(c, [base EXCEPT !.pc = "submit",
                         !.calls = <<[call |-> "createQueryJob", arg |-> q]>>])
  /\ UNCHANGED <<facade, remote, history>>

(* let [job] = await this.client.createQueryJob(options); job.getQueryResults() *)
QueryJobCreated(c) ==
  /\ call[c].op = "query" /\ call[c].pc = "submit"
  /\ \/ call' = [call EXCEPT ![c].pc = "wait",
                   ![c].calls = Append(call[c].calls,
                                  [call |-> "job.getQueryResults", arg |-> ""])]
     \/ \E e \in TransportErrors :
          call' = [call EXCEPT ![c].pc = "done", ![c].fault = (e \in TransportErrors), ![c].raised = e,
                     ![c].result = Rejected(e)]
  /\ UNCHANGED <<facade, remote, history>>

(* Variant of QueryCatch: the wait call is issued again after a failure. *)
QueryCatch_Retries(c, e) ==
  [call[c] EXCEPT !.calls = Append(call[c].calls,
                              [call |-> "job.getQueryResults", arg |-> ""])]

(* Variant of QueryCatch: the handler returns a promise that never settles. *)
QueryCatch_NeverSettles(c, e) ==
  [call[c] EXCEPT !.pc = "hung", !.fault = TRUE, !.raised = e]

(* Variant of QueryCatch: the error of the wait call is rethrown as it is. *)
QueryCatch_Rethrows(c, e) ==
  [call[c] EXCEPT !.pc = "done", !.fault = TRUE, !.raised = e,
     !.result = Rejected(e)]

(* .catch((e) => { this.error(e); throw new Error(e.message) }): emit('error') *)
(* throws when no listener is attached.                                    *)
QueryCatch(c, e) ==
  IF errorListener
  THEN [call[c] EXCEPT !.pc = "done", !.fault = TRUE, !.raised = e,
          !.events = Emit(c, <<Event("error", e.message)>>),
          !.result = Rejected(ErrorValue("Error", e.message))]
  ELSE [call[c] EXCEPT !.pc = "done", !.fault = TRUE, !.raised = e,
          !.result = Rejected(UnhandledError)]

(* Variant of QueryDecide: the error list of the response is not looked at. *)
QueryDecide_CompleteOnly(c, response) ==
  IF ~response.jobComplete
  THEN [call[c] EXCEPT !.pc = "done", !.local = response,
          !.result = Rejected(JobNotComplete)]
  ELSE [call[c] EXCEPT !.pc = "done", !.local = response,
          !.events = Emit(c, <<LogEvent("Query Successful: " \o call[c].q)>>),
          !.result = Resolved(response.rows)]

(* Variant of QueryDecide: the query is logged as successful before the checks. *)
QueryDecide_LogsFirst(c, response) ==
  LET logged == Emit(c, <<LogEvent("Query Successful: " \o call[c].q)>>)
  IN IF response.hasErrors
     THEN [call[c] EXCEPT !.pc = "done", !.local = response, !.events = logged,
             !.result = Rejected(ErrorValue("Error", Join(response.errors, ";")))]
     ELSE IF ~response.jobComplete
     THEN [call[c] EXCEPT !.pc = "done", !.local = response, !.events = logged,
             !.result = Rejected(JobNotComplete)]
     ELSE [call[c] EXCEPT !.pc = "done", !.local = response, !.events = logged,
             !.result = Resolved(response.rows)]

(* the decision sequence after the wait returns *)
QueryDecide(c, response) ==
  IF response.hasErrors
  THEN [call[c] EXCEPT !.pc = "done", !.local = response,
          !.result = Rejected(ErrorValue("Error", Join(response.errors, ";")))]
  ELSE IF ~response.jobComplete
  THEN [call[c] EXCEPT !.pc = "done", !.local = response,
          !.result = Rejected(JobNotComplete)]
  ELSE [call[c] EXCEPT !.pc = "done", !.local = response,
          !.events = Emit(c, <<LogEvent("Query Successful: " \o call[c].q)>>),
          !.result = Resolved(response.rows)]

QueryResultsDone(c) ==
  /\ call[c].op = "query" /\ call[c].pc = "wait"
  /\ \/ \E r \in QueryResponses :
          /\ WellFormed(r)
          /\ call' = [call EXCEPT ![c] = QueryDecide(c, r)]
     \/ \E e \in TransportErrors :
          call' = [call EXCEPT ![c] = QueryCatch(c, e)]
  /\ UNCHANGED <<facade, remote, history>>

(* ----------------------------- queryStream ---------------------------- *)
QueryStreamCall(c, q) ==
  /\ Idle(c)
  /\ LET base == [IdleCall EXCEPT !.op = "queryStream", !.q = q, !.pc = "done"]
     IN IF client = Null
        THEN Start(c, [base EXCEPT !.result = Threw(NullDeref)])
        ELSE Start(c, [base EXCEPT
                         !.calls = <<[call |-> "createQueryStream", arg |-> q]>>,
                         !.result = Returned([kind |-> "ResourceStream", query |-> q])])
  /\ UNCHANGED <<facade, remote, history>>

(* --------------------------- updateAvailable -------------------------- *)
(* metadata.streamingBuffer: the field is missing, null, or describes a buffer *)
Metadatas == [kind : {"metadata"}, streamingBuffer : {"absent", "null", "buffer"}]

UpdateAvailableCall(c, t, d) ==
  /\ Idle(c)
  /\ LET base == [IdleCall EXCEPT !.op = "updateAvailable", !.d = d, !.t = t,
                    !.prev = Lookup(tables, TableKey(d, t)),
                    !.last = call[c].last]
         found == getTable(d, t)
     IN IF found.status = "threw"
        THEN Start(c, [base EXCEPT !.pc = "done", !.result = found])
        ELSE Start(c, [base EXCEPT !.pc = "meta", !.local = found.value,
                         !.calls = <<[call |-> "table.getMetadata", arg |-> ""]>>])
  /\ UNCHANGED <<facade, remote, history>>

(* Variant of UpdateDecide: the field is compared with === null. *)
UpdateDecide_StrictNull(metadata) == metadata.streamingBuffer = "null"

(* if (metadata.streamingBuffer == null) return true; return false: the   *)
(* loose comparison holds of null and of undefined.                       *)
UpdateDecide(metadata) == metadata.streamingBuffer \in {"absent", "null"}

MetadataDone(c) ==
  /\ call[c].op = "updateAvailable" /\ call[c].pc = "meta"
  /\ \/ \E m \in Metadatas :
          call' = [call EXCEPT ![c].pc = "done", ![c].local = m,
                     ![c].result = Resolved(UpdateDecide(m))]
     \/ \E e \in TransportErrors :
          call' = [call EXCEPT ![c].pc = "done", ![c].fault = (e \in TransportErrors), ![c].raised = e,
                     ![c].result = Rejected(e)]
  /\ UNCHANGED <<facade, remote, history>>

(* --------------------------- environment ------------------------------ *)
(* The caller takes the settled outcome of a call. *)
Return(c) ==
  /\ call[c].pc = "done"
  /\ call' = [call EXCEPT ![c] =
                [IdleCall EXCEPT !.last =
                   IF call[c].op = "updateAvailable" /\ call[c].result.status = "resolved"
                   THEN Answer(call[c].d, call[c].t, call[c].local, call[c].result.value)
                   ELSE NoAnswer]]
  /\ UNCHANGED <<facade, remote, history>>

(* Another actor creates or deletes a dataset in the same project. *)
ExternalCreate(d) ==
  /\ externalOps < MaxExternal
  /\ d \notin remoteDatasets
  /\ remoteDatasets' = remoteDatasets \cup {d}
  /\ externalOps' = externalOps + 1
  /\ UNCHANGED <<facade, remoteTables, everDeleted, call, history>>

ExternalDelete(d) ==
  /\ externalOps < MaxExternal
  /\ d \in remoteDatasets
  /\ remoteDatasets' = remoteDatasets \ {d}
  /\ remoteTables' = {rt \in remoteTables : rt[1] # d}
  /\ everDeleted' = everDeleted \cup {d}
  /\ externalOps' = externalOps + 1
  /\ UNCHANGED <<facade, call, history>>

Next ==
  \/ \E c \in DOMAIN call : InitCall(c)
  \/ \E c \in DOMAIN call : InitProbeDone(c)
  \/ \E c \in DOMAIN call, d \in DatasetNames : CreateDataSetCall(c, d)
  \/ \E c \in DOMAIN call : DatasetExistsDone(c)
  \/ \E c \in DOMAIN call : DatasetCreateDone(c)
  \/ \E c \in DOMAIN call, d \in LookupNames : GetDatasetCall(c, d)
  \/ \E c \in DOMAIN call, d \in LookupNames, t \in TableNames,
        s \in Schemas \cup {NoSchema} : CreateTableCall(c, d, t, s)
  \/ \E c \in DOMAIN call : TableExistsDone(c)
  \/ \E c \in DOMAIN call : TableCreateDone(c)
  \/ \E c \in DOMAIN call, d \in DatasetNames, t \in TableNames : GetTableCall(c, d, t)
  \/ \E c \in DOMAIN call, d \in DatasetNames, t \in TableNames : InsertCall(c, d, t)
  \/ \E c \in DOMAIN call : InsertDone(c)
  \/ \E c \in DOMAIN call, q \in QueryTexts : QueryCall(c, q)
  \/ \E c \in DOMAIN call : QueryJobCreated(c)
  \/ \E c \in DOMAIN call : QueryResultsDone(c)
  \/ \E c \in DOMAIN call, q \in QueryTexts : QueryStreamCall(c, q)
  \/ \E c \in DOMAIN call, d \in DatasetNames, t \in TableNames : UpdateAvailableCall(c, t, d)
  \/ \E c \in DOMAIN call : MetadataDone(c)
  \/ \E c \in DOMAIN call : Return(c)
  \/ \E d \in DatasetNames : ExternalCreate(d)
  \/ \E d \in DatasetNames : ExternalDelete(d)

Spec == Init /\ [][Next]_vars

(* ------------------------ overlapping calls --------------------------- *)
(* Two calls in flight on one facade instance: every public operation     *)
(* returns a promise, so a second call can start before the first one's   *)
(* remote call has answered.                                              *)
ConcurrentCalls == {1, 2}
OneDataset == {"d"}
OneTable == {"t"}

InitConcurrent ==
  /\ client = Null
  /\ nextClient = 0
  /\ datasets = EmptyRecord
  /\ tables = EmptyRecord
  /\ errorListener \in BOOLEAN
  /\ remoteDatasets = {}
  /\ remoteTables = {}
  /\ externalOps = 0
  /\ everDeleted = {}
  /\ call = [c \in ConcurrentCalls |-> IdleCall]
  /\ completedDatasets = {}
  /\ completedTables = {}

(* The remote collaborator answers the call that c is waiting on. *)
Respond(c) ==
  \/ InitProbeDone(c)
  \/ DatasetExistsDone(c)
  \/ DatasetCreateDone(c)
  \/ TableExistsDone(c)
  \/ TableCreateDone(c)
  \/ InsertDone(c)
  \/ QueryJobCreated(c)
  \/ QueryResultsDone(c)
  \/ MetadataDone(c)

NextConcurrent ==
  \/ \E c \in DOMAIN call : InitCall(c)
  \/ \E c \in DOMAIN call, d \in OneDataset : CreateDataSetCall(c, d)
  \/ \E c \in DOMAIN call, d \in OneDataset, t \in OneTable,
        s \in Schemas \cup {NoSchema} : CreateTableCall(c, d, t, s)
  \/ \E c \in DOMAIN call, d \in OneDataset, t \in OneTable : InsertCall(c, d, t)
  \/ \E c \in DOMAIN call, q \in QueryTexts : QueryCall(c, q)
  \/ \E c \in DOMAIN call, d \in OneDataset, t \in OneTable : UpdateAvailableCall(c, t, d)
  \/ \E c \in DOMAIN call : Respond(c)
  \/ \E c \in DOMAIN call : Return(c)

(* Every remote call is answered: a pending answer is eventually delivered. *)
SpecConcurrent ==
  InitConcurrent /\ [][NextConcurrent]_vars
    /\ \A c \in ConcurrentCalls : WF_vars(Respond(c))

(* ====================================================================== *)
(*                              Properties                                *)
(* ====================================================================== *)
RemoteCalls(c, name) == SelectSeq(call[c].calls, LAMBDA x : x.call = name)
SuccessEvents(c) == SelectSeq(call[c].events, LAMBDA e : e.type = "success")
Done(c, op) == call[c].op = op /\ call[c].pc = "done"
Failed(c) == call[c].result.status \in {"threw", "rejected"}

(* C1: a createDataSet(name) issued after an earlier createDataSet(name)   *)
(* completed (its handle is the cached one), with the dataset not deleted  *)
(* by another actor and no remote call failing, resolves with the same     *)
(* handle as the earlier call and issues no remote create.                 *)
C1_SecondCall(c) ==
  /\ Done(c, "createDataSet")
  /\ call[c].prev.kind = "Dataset"
  /\ call[c].d \notin everDeleted
  /\ ~call[c].fault

C1_CreateDataSetIdempotent ==
  \A c \in DOMAIN call :
    C1_SecondCall(c) =>
      /\ call[c].result = Resolved(call[c].prev)
      /\ call[c].probed = <<TRUE>>
      /\ RemoteCalls(c, "dataset.create") = <<>>

C1_Witness ==
  \E c \in DOMAIN call :
    /\ C1_SecondCall(c)
    /\ call[c].result.status = "resolved"
    /\ call[c].d \in completedDatasets

(* C2: a createTable on a cached dataset whose probe reports the table     *)
(* absent and that was given no schema fails with the schema-required      *)
(* error, has issued no table.create, and none of its steps changes the    *)
(* table registry or the remote tables.                                    *)
C2_Step(c) ==
  /\ call'[c] # call[c]
  /\ call'[c].op = "createTable"
  /\ call'[c].schema = NoSchema
  /\ call'[c].probed # <<TRUE>>

C2_SchemaRequired ==
  [][\A c \in DOMAIN call :
       C2_Step(c) =>
         /\ tables' = tables
         /\ remoteTables' = remoteTables
         /\ RemoteCalls(c, "table.create")' = <<>>
         /\ call'[c].probed = <<FALSE>> =>
              /\ call'[c].pc = "done"
              /\ call'[c].result = Rejected(SchemaRequired(call[c].d, call[c].t))]_vars

C2_Witness ==
  \E c \in DOMAIN call :
    /\ Done(c, "createTable")
    /\ call[c].schema = NoSchema
    /\ call[c].probed = <<FALSE>>
    /\ call[c].result.status = "rejected"
    /\ call[c].d \in DOMAIN datasets
    /\ tables # EmptyRecord

(* C3: a query whose wait response carries a non-empty error list and      *)
(* jobComplete = true is rejected with the error messages joined by ";",   *)
(* never with the job-not-complete error.                                  *)
C3_Case(c) ==
  /\ Done(c, "query")
  /\ call[c].local.kind = "response"
  /\ call[c].local.hasErrors
  /\ call[c].local.errors # <<>>
  /\ call[c].local.jobComplete

C3_ErrorBeforeCompleteness ==
  \A c \in DOMAIN call :
    C3_Case(c) =>
      /\ call[c].result = Rejected(ErrorValue("Error", Join(call[c].local.errors, ";")))
      /\ call[c].result.error # JobNotComplete

C3_Witness ==
  \E c \in DOMAIN call :
    /\ C3_Case(c)
    /\ call[c].result = Rejected(ErrorValue("Error", "e1;e2"))

(* C4: in every state getDataset(name) returns a value exactly when a      *)
(* createDataSet(name) has completed successfully, and getTable(d, t)      *)
(* returns a value exactly when a createTable(d, t) has completed          *)
(* successfully; otherwise the lookup throws the not-found error.          *)
C4_HandleIffCreated ==
  /\ \A d \in LookupNames :
       IF d \in completedDatasets
       THEN getDataset(d).status = "returned"
       ELSE getDataset(d) = Threw(DatasetNotFound(d))
  /\ \A d \in LookupNames, t \in TableNames :
       IF <<d, t>> \in completedTables
       THEN getTable(d, t).status = "returned"
       ELSE getTable(d, t) = Threw(TableNotFound(d, t))

(* C5 as stated: every provisioning or data operation invoked while the    *)
(* connection is still null fails with the error of the uninitialized      *)
(* (null) connection.                                                      *)
C5_Ops == {"createDataSet", "createTable", "insert", "query", "queryStream",
           "updateAvailable"}
C5_BeforeInit(c) == call[c].op \in C5_Ops /\ call[c].conn = Null

C5_UninitializedError ==
  \A c \in DOMAIN call :
    C5_BeforeInit(c) => Failed(c) /\ call[c].result.error = NullDeref

(* C5 amended: every such operation fails at once and issues no remote     *)
(* call; createDataSet, query and queryStream fail on the null connection, *)
(* insert and updateAvailable with the table not-found error, createTable  *)
(* with the dataset not-found error (a TypeError for a dataset name that   *)
(* Object.prototype defines).                                              *)
C5_FailsBeforeInit ==
  \A c \in DOMAIN call :
    C5_BeforeInit(c) =>
      /\ call[c].pc = "done"
      /\ Failed(c)
      /\ call[c].calls = <<>>
      /\ call[c].op \in {"createDataSet", "query", "queryStream"} =>
           call[c].result.error = NullDeref
      /\ call[c].op \in {"insert", "updateAvailable"} =>
           call[c].result = Threw(TableNotFound(call[c].d, call[c].t))
      /\ call[c].op = "createTable" =>
           call[c].result = Threw(IF call[c].d \in ObjectProtoNames
                                  THEN NotAFunction
                                  ELSE DatasetNotFound(call[c].d))

C5_Witness ==
  \E c \in DOMAIN call :
    /\ C5_BeforeInit(c)
    /\ call[c].op = "insert"
    /\ call[c].result = Threw(TableNotFound("d", "t"))
    /\ nextClient > 0

(* C6 as stated: once the connection handle is set it is never replaced.   *)
C6_SetOnce == [][client # Null => client' = client]_vars

(* C6 amended: the handle starts null and is written only by init; every   *)
(* successful init stores the client it constructed (a repeated init       *)
(* replaces the handle), a failed init leaves it as it was, and once set   *)
(* it is never null again.                                                 *)
C6_WrittenOnlyByInit ==
  /\ client = Null
  /\ [][/\ client' # client =>
            \E c \in DOMAIN call :
              /\ call[c].op = "init" /\ call[c].pc = "probe"
              /\ call'[c].result.status = "resolved"
              /\ client' = call[c].local
        /\ client # Null => client' # Null
        /\ \A c \in DOMAIN call :
             /\ call[c].op = "init" /\ call[c].pc = "probe" /\ call'[c].pc = "done" =>
                  IF call'[c].result.status = "resolved"
                  THEN client' = call[c].local
                  ELSE client' = client]_vars

C6_Witness ==
  \E c \in DOMAIN call :
    /\ Done(c, "init")
    /\ call[c].conn = BQClient(1)
    /\ call[c].result.status = "resolved"
    /\ client = BQClient(2)

(* C7: a createTable whose datasetName is not in the dataset registry      *)
(* throws the dataset not-found error, issues no remote call and leaves    *)
(* both registries unchanged.                                              *)
C7_MissingDatasetNotFound ==
  [][\A c \in DOMAIN call :
       (/\ call[c].op = "idle" /\ call'[c].op = "createTable"
        /\ call'[c].d \notin DOMAIN datasets) =>
         /\ call'[c].result = Threw(DatasetNotFound(call'[c].d))
         /\ call'[c].calls = <<>>
         /\ datasets' = datasets /\ tables' = tables]_vars

(* C8: a createTable on a cached dataset whose probe reports the table     *)
(* present, with or without a schema, issues no table.create, emits the    *)
(* single success event "already exists", resolves with the table handle   *)
(* and has it cached under the key of (datasetName, tableName).            *)
C8_Case(c) == Done(c, "createTable") /\ call[c].probed = <<TRUE>>

C8_TableAlreadyExists ==
  \A c \in DOMAIN call :
    C8_Case(c) =>
      /\ RemoteCalls(c, "table.create") = <<>>
      /\ SuccessEvents(c) = <<SuccessEvent(TableExistsMessage(call[c].d, call[c].t))>>
      /\ call[c].result = Resolved(TableHandle(DatasetHandle(call[c].d), call[c].t))
      /\ getTable(call[c].d, call[c].t) = Returned(call[c].result.value)

C8_Witness ==
  \E c \in DOMAIN call :
    /\ C8_Case(c)
    /\ call[c].schema \in Schemas
    /\ call[c].result.status = "resolved"

(* C9: a createTable on a cached dataset whose probe reports the table     *)
(* absent and that was given a schema issues exactly one table.create,     *)
(* carrying that schema; when the create succeeds the call emits the       *)
(* single success event "created", resolves with the table handle and has  *)
(* it cached under the key of (datasetName, tableName).                    *)
C9_Case(c) ==
  /\ call[c].op = "createTable"
  /\ call[c].probed = <<FALSE>>
  /\ call[c].schema # NoSchema

C9_TableCreated ==
  \A c \in DOMAIN call :
    C9_Case(c) =>
      /\ RemoteCalls(c, "table.create") = <<[call |-> "table.create", arg |-> call[c].schema]>>
      /\ call[c].pc = "create" => SuccessEvents(c) = <<>>
      /\ (call[c].pc = "done" /\ call[c].result.status = "resolved") =>
           /\ SuccessEvents(c) = <<SuccessEvent(TableCreatedMessage(call[c].d, call[c].t))>>
           /\ call[c].result.value = TableHandle(DatasetHandle(call[c].d), call[c].t)
           /\ getTable(call[c].d, call[c].t) = Returned(call[c].result.value)
           /\ <<call[c].d, call[c].t>> \in remoteTables \/ call[c].d \in everDeleted

C9_Witness ==
  \E c \in DOMAIN call :
    /\ C9_Case(c)
    /\ call[c].pc = "done"
    /\ call[c].result.status = "resolved"

(* C10: a createDataSet that resolves has probed existence exactly once;   *)
(* when the probe reported absent it issued exactly one dataset.create and *)
(* emitted "created", when it reported present it issued no create and     *)
(* emitted "already exists"; either way it emitted exactly one success     *)
(* event, the registry holds the name and the cached handle is the one     *)
(* returned.                                                               *)
C10_Case(c) == Done(c, "createDataSet") /\ call[c].result.status = "resolved"

C10_CreateDataSetBranches ==
  \A c \in DOMAIN call :
    C10_Case(c) =>
      /\ Len(RemoteCalls(c, "dataset.exists")) = 1
      /\ Len(call[c].probed) = 1
      /\ call[c].probed = <<FALSE>> =>
           /\ Len(RemoteCalls(c, "dataset.create")) = 1
           /\ SuccessEvents(c) = <<SuccessEvent(DatasetCreatedMessage(call[c].d))>>
      /\ call[c].probed = <<TRUE>> =>
           /\ Len(RemoteCalls(c, "dataset.create")) = 0
           /\ SuccessEvents(c) = <<SuccessEvent(DatasetExistsMessage(call[c].d))>>
      /\ call[c].d \in DOMAIN datasets
      /\ call[c].result.value = DatasetHandle(call[c].d)
      /\ getDataset(call[c].d) = Returned(call[c].result.value)

C10_Witness ==
  \E c \in DOMAIN call :
    /\ C10_Case(c)
    /\ call[c].probed = <<FALSE>>
    /\ call[c].d \in remoteDatasets

(* C11: a lookup that misses the registry makes no remote call: getDataset *)
(* on a name that is no key of the dataset registry, and getTable, insert  *)
(* and updateAvailable on a pair whose key is no key of the table          *)
(* registry, throw the not-found error, issue no remote call and leave     *)
(* both registries unchanged.                                              *)
C11_Starts(c, ops) == call[c].op = "idle" /\ call'[c].op \in ops

C11_MissIsNotFound ==
  [][\A c \in DOMAIN call :
       /\ (C11_Starts(c, {"getDataset"}) /\ call'[c].d \notin DOMAIN datasets) =>
            /\ call'[c].result = Threw(DatasetNotFound(call'[c].d))
            /\ call'[c].calls = <<>>
            /\ datasets' = datasets /\ tables' = tables
       /\ (/\ C11_Starts(c, {"getTable", "insert", "updateAvailable"})
           /\ TableKey(call'[c].d, call'[c].t) \notin DOMAIN tables) =>
            /\ call'[c].result = Threw(TableNotFound(call'[c].d, call'[c].t))
            /\ call'[c].calls = <<>>
            /\ datasets' = datasets /\ tables' = tables]_vars

(* C12: in init, createDataSet and createTable the success event, the      *)
(* registry write and the store of the connection happen only in the step  *)
(* in which the call resolves; a call whose remote probe or create fails   *)
(* is rejected with that very error, has emitted no success event and has  *)
(* written nothing.                                                        *)
C12_Ops == {"init", "createDataSet", "createTable"}

C12_EffectsAfterConfirmation ==
  [][\A c \in DOMAIN call :
       (call'[c] # call[c] /\ call'[c].op \in C12_Ops) =>
         /\ call'[c].result.status # "resolved" =>
              /\ SuccessEvents(c)' = <<>>
              /\ datasets' = datasets /\ tables' = tables /\ client' = client
         /\ call'[c].raised # Undefined =>
              /\ call'[c].pc = "done"
              /\ call'[c].result = Rejected(call'[c].raised)]_vars

C12_Witness ==
  \E c \in DOMAIN call :
    /\ Done(c, "createDataSet")
    /\ call[c].probed = <<FALSE>>
    /\ call[c].raised \in TransportErrors
    /\ call[c].result = Rejected(call[c].raised)
    /\ call[c].d \notin DOMAIN datasets

(* C13: an insert on a cached table that the collaborator answers resolves *)
(* with the collaborator's response; a PartialFailureError is replaced by  *)
(* a new Error whose message is the JSON text of the failure; any other    *)
(* failure is rejected with the identical error.                           *)
C13_Case(c) == Done(c, "insert") /\ call[c].calls # <<>>

C13_InsertClassification ==
  \A c \in DOMAIN call :
    C13_Case(c) =>
      IF call[c].raised = Undefined
      THEN call[c].result = Resolved(InsertResponse) /\ call[c].local = InsertResponse
      ELSE IF call[c].raised.name = "PartialFailureError"
      THEN /\ call[c].result.status = "rejected"
           /\ call[c].result.error.name = "Error"
           /\ call[c].result.error.message = JsonStringify(call[c].raised)
           /\ call[c].result.error # call[c].raised
      ELSE call[c].result = Rejected(call[c].raised)

C13_Witness ==
  \E c \in DOMAIN call :
    /\ C13_Case(c)
    /\ call[c].raised \in TransportErrors
    /\ call[c].result = Rejected(call[c].raised)

(* C14 as stated: decoding the message of the error of a partial failure   *)
(* yields exactly the per-row rejections the collaborator reported.        *)
C14_Case(c) ==
  /\ C13_Case(c)
  /\ call[c].raised # Undefined
  /\ call[c].raised.name = "PartialFailureError"

C14_PayloadRoundTrips ==
  \A c \in DOMAIN call :
    C14_Case(c) => JsonParse(call[c].result.error.message).errors = call[c].raised.errors

(* C14 amended: decoding the message yields the rejected rows with their   *)
(* reasons in the reported order, equal to the reported ones when every    *)
(* value is a string, a finite number or null; NaN comes back as null and  *)
(* a Date as the string of its ISO time.                                   *)
C14_JsonSafe(x) == x.type \in {"string", "null"} \/ (x.type = "number" /\ x.v # "NaN")
C14_Back(x) ==
  IF C14_JsonSafe(x) THEN x
  ELSE IF x.type = "Date" THEN JsString(x.v)
  ELSE JsNull

C14_PayloadJsonImage ==
  \A c \in DOMAIN call :
    C14_Case(c) =>
      LET sent == call[c].raised.errors
          back == JsonParse(call[c].result.error.message).errors
      IN /\ Len(back) = Len(sent)
         /\ \A i \in 1..Len(sent) :
              /\ back[i].reason = sent[i].reason
              /\ back[i].row = C14_Back(sent[i].row)
         /\ (\A i \in 1..Len(sent) : C14_JsonSafe(sent[i].row)) => back = sent

C14_Witness ==
  \E c \in DOMAIN call :
    /\ C14_Case(c)
    /\ Len(call[c].raised.errors) = 2
    /\ JsonParse(call[c].result.error.message).errors = call[c].raised.errors

(* C15: a query whose wait response carries no execution errors (the list  *)
(* is absent or empty) and whose job is not marked complete is rejected    *)
(* with the job-not-complete error, returns no rows and emits no success   *)
(* event.                                                                  *)
Answered(c) == Done(c, "query") /\ call[c].local.kind = "response"

C15_IncompleteJob ==
  \A c \in DOMAIN call :
    (Answered(c) /\ call[c].local.errors = <<>> /\ ~call[c].local.jobComplete) =>
      /\ call[c].result = Rejected(JobNotComplete)
      /\ SuccessEvents(c) = <<>>

(* C16 as stated: a query whose wait response carries no execution errors  *)
(* and whose job is marked complete emits a success event echoing the      *)
(* query text and resolves with the rows.                                  *)
QuerySuccessMessage(c) == "Query Successful: " \o call[c].q

C16_SuccessEvent ==
  \A c \in DOMAIN call :
    (Answered(c) /\ call[c].local.errors = <<>> /\ call[c].local.jobComplete) =>
      /\ call[c].result.status = "resolved"
      /\ SuccessEvents(c) = <<SuccessEvent(QuerySuccessMessage(c))>>

(* C16 amended: query resolves exactly when the wait response has no       *)
(* errors array and the job is marked complete; it has then emitted, as    *)
(* its only event, one log event echoing the query text, and it returns    *)
(* the rows; query never emits a success event and a query that fails has  *)
(* not emitted that log event.                                             *)
C16_LogEventOnSuccess ==
  \A c \in DOMAIN call :
    Done(c, "query") =>
      /\ SuccessEvents(c) = <<>>
      /\ call[c].result.status = "resolved" <=>
           (Answered(c) /\ ~call[c].local.hasErrors /\ call[c].local.jobComplete)
      /\ IF call[c].result.status = "resolved"
         THEN /\ call[c].events = <<LogEvent(QuerySuccessMessage(c))>>
              /\ call[c].result.value = call[c].local.rows
         ELSE \A i \in 1..Len(call[c].events) : call[c].events[i].type # "log"

C16_Witness ==
  \E c \in DOMAIN call :
    /\ Answered(c)
    /\ call[c].result = Resolved(<<"r1", "r2">>)
    /\ call[c].events = <<LogEvent("Query Successful: q1")>>

(* C17: no call is issued twice by one invocation: the remote calls of an  *)
(* invocation are pairwise different, a query that got its answer has      *)
(* submitted one job and made one wait call, and an invocation whose       *)
(* remote call failed is settled as failed at once.                        *)
C17_NoRetry ==
  \A c \in DOMAIN call :
    /\ \A i, j \in 1..Len(call[c].calls) :
         call[c].calls[i].call = call[c].calls[j].call => i = j
    /\ (call[c].op = "query" /\ (call[c].pc = "wait" \/ Answered(c))) =>
         call[c].calls = <<[call |-> "createQueryJob", arg |-> call[c].q],
                           [call |-> "job.getQueryResults", arg |-> ""]>>
    /\ call[c].raised # Undefined => call[c].pc = "done" /\ Failed(c)

C17_Witness ==
  \E c \in DOMAIN call :
    /\ Done(c, "query")
    /\ call[c].raised \in TransportErrors
    /\ Len(call[c].calls) = 2
    /\ Failed(c)

(* C18 as stated: a transport error raised by the collaborator during      *)
(* query reaches the caller as the same error value.                       *)
C18_Case(c) == Done(c, "query") /\ call[c].raised # Undefined

C18_PassedThrough ==
  \A c \in DOMAIN call : C18_Case(c) => call[c].result = Rejected(call[c].raised)

(* C18 amended: an error of the job submission reaches the caller as the   *)
(* same error value; an error of the wait call is reported as an error     *)
(* event and replaced by a new Error with the same message, and when the   *)
(* emitter has no error listener the emit throws and query is rejected     *)
(* with that unhandled-error error instead.                                *)
C18_SubmitPassedWaitWrapped ==
  \A c \in DOMAIN call :
    C18_Case(c) =>
      IF Len(call[c].calls) = 1
      THEN call[c].result = Rejected(call[c].raised) /\ call[c].events = <<>>
      ELSE IF errorListener
      THEN /\ call[c].result = Rejected(ErrorValue("Error", call[c].raised.message))
           /\ call[c].result.error # call[c].raised
           /\ call[c].events = <<Event("error", call[c].raised.message)>>
      ELSE call[c].result = Rejected(UnhandledError) /\ call[c].events = <<>>

C18_Witness ==
  \E c \in DOMAIN call :
    /\ C18_Case(c)
    /\ Len(call[c].calls) = 2
    /\ errorListener
    /\ call[c].result.error.name = "Error"
    /\ call[c].raised.name = "ApiError"

(* C19: updateAvailable on a cached table resolves with true exactly when  *)
(* the metadata this call fetched has an absent or null streaming-buffer   *)
(* field; nothing of the answer is kept: the registries are as they were,  *)
(* and when the call made just before on the same table saw the other      *)
(* buffer state, the two answers differ.                                   *)
C19_Case(c) ==
  Done(c, "updateAvailable") /\ call[c].local.kind = "metadata"

C19_LiveAnswer ==
  \A c \in DOMAIN call :
    C19_Case(c) =>
      /\ Truthy(call[c].prev)
      /\ call[c].calls = <<[call |-> "table.getMetadata", arg |-> ""]>>
      /\ call[c].result =
           Resolved(call[c].local.streamingBuffer \in {"absent", "null"})
      /\ Lookup(tables, TableKey(call[c].d, call[c].t)) = call[c].prev
      /\ (/\ call[c].last # NoAnswer
          /\ call[c].last.d = call[c].d /\ call[c].last.t = call[c].t
          /\ call[c].last.buffer # (call[c].local.streamingBuffer = "buffer")) =>
           call[c].result.value # call[c].last.value

C19_Witness ==
  \E c \in DOMAIN call :
    /\ C19_Case(c)
    /\ call[c].last # NoAnswer
    /\ call[c].last.d = call[c].d /\ call[c].last.t = call[c].t
    /\ call[c].last.value = FALSE
    /\ call[c].local.streamingBuffer = "absent"
    /\ call[c].result = Resolved(TRUE)

(* C20: init issues one connectivity probe (getDatasets) and nothing else; *)
(* when the probe succeeds init stores the client it built, emits one      *)
(* success event naming the project id and resolves; when the probe fails  *)
(* init rejects with the very error the probe raised, the connection is    *)
(* the one init found, and no success event is emitted.                    *)
C20_InitOutcome ==
  \A c \in DOMAIN call :
    Done(c, "init") =>
      /\ call[c].calls = <<[call |-> "getDatasets", arg |-> ""]>>
      /\ IF call[c].raised = Undefined
         THEN /\ call[c].result = Resolved(Facade)
              /\ client = call[c].local
              /\ client.kind = "BQ"
              /\ SuccessEvents(c) =
                   <<SuccessEvent("Successfully connected on project " \o ProjectId)>>
         ELSE /\ call[c].result = Rejected(call[c].raised)
              /\ client = call[c].conn
              /\ client # call[c].local
              /\ SuccessEvents(c) = <<>>

C20_Witness ==
  \E c \in DOMAIN call :
    /\ Done(c, "init")
    /\ call[c].raised \in TransportErrors
    /\ call[c].conn # Null
    /\ client = call[c].conn

(* C21: provisioning calls are not serialized. While a createDataSet (or a *)
(* createTable) call is waiting for the remote, a second call for the same *)
(* name can start; two calls for one name can both be past a probe that    *)
(* said "absent" with their creates issued; and a call whose create was    *)
(* issued ends as the remote answered: resolved when the create succeeded, *)
(* rejected with the remote's own error when it did not.                   *)
Provisioning(c) ==
  call[c].op \in {"createDataSet", "createTable"} /\ call[c].pc \in {"exists", "create"}

SameTarget(c1, c2) ==
  /\ call[c1].op = call[c2].op
  /\ call[c1].d = call[c2].d
  /\ call[c1].t = call[c2].t

C21_NotSerialized ==
  \A c1, c2 \in DOMAIN call :
    c1 # c2 =>
      /\ (Provisioning(c1) /\ call[c2].op = "idle") =>
           IF call[c1].op = "createDataSet"
           THEN ENABLED CreateDataSetCall(c2, call[c1].d)
           ELSE ENABLED CreateTableCall(c2, call[c1].d, call[c1].t, call[c1].schema)
      /\ (Provisioning(c1) /\ Provisioning(c2) /\ SameTarget(c1, c2)
            /\ call[c1].pc = "create" /\ call[c2].pc = "create") =>
           /\ call[c1].probed = <<FALSE>> /\ call[c2].probed = <<FALSE>>
           /\ Len(call[c1].calls) = 2 /\ Len(call[c2].calls) = 2
      /\ (call[c1].op \in {"createDataSet", "createTable"} /\ call[c1].pc = "done"
            /\ Len(call[c1].calls) = 2) =>
           IF call[c1].raised = Undefined
           THEN call[c1].result = Resolved(call[c1].local)
           ELSE call[c1].result = Rejected(call[c1].raised)

C21_Witness ==
  \E c1, c2 \in DOMAIN call :
    /\ c1 # c2
    /\ call[c1].op = "createDataSet" /\ call[c2].op = "createDataSet"
    /\ call[c1].d = call[c2].d
    /\ call[c1].probed = <<FALSE>> /\ call[c2].probed = <<FALSE>>
    /\ Len(call[c1].calls) = 2 /\ Len(call[c2].calls) = 2
    /\ call[c1].result.status = "resolved"
    /\ call[c2].raised = ApiError("Already Exists")

(* C22: a cached handle is never removed. A getDataset or getTable that    *)
(* succeeds keeps succeeding after every step, whatever the step is (a     *)
(* failing createDataSet or createTable, a remote deletion); and insert    *)
(* and updateAvailable on a cached table issue their one remote call on    *)
(* the cached handle, with no existence probe.                             *)
C22_UsesCachedHandle ==
  \A c \in DOMAIN call :
    (call[c].op \in {"insert", "updateAvailable"} /\ call[c].pc \in {"insert", "meta"}) =>
      /\ Truthy(call[c].prev)
      /\ call[c].local = call[c].prev
      /\ call[c].calls \in {<<[call |-> "table.insert", arg |-> "rows"]>>,
                            <<[call |-> "table.getMetadata", arg |-> ""]>>}

(* getDataset and getTable succeed on a name exactly when the registry     *)
(* entry they look up is truthy, so they keep succeeding when every entry  *)
(* stays in its registry with a truthy value.                              *)
C22_Step ==
  /\ \A k \in DOMAIN datasets : k \in DOMAIN datasets' /\ Truthy(datasets'[k])
  /\ \A k \in DOMAIN tables : k \in DOMAIN tables' /\ Truthy(tables'[k])
  /\ C22_UsesCachedHandle'

C22_NeverRemoved == [][C22_Step]_vars

C22_Witness ==
  \E c \in DOMAIN call :
    /\ call[c].op = "insert" /\ call[c].pc = "insert"
    /\ call[c].d \in everDeleted
    /\ RemoteTable(call[c].local) \notin remoteTables
    /\ getTable(call[c].d, call[c].t) = Returned(call[c].local)

(* C23: what a call hands to its caller does not depend on the listeners   *)
(* attached to the emitter. The only step of the facade that reads the     *)
(* listeners is the emit('error') of query's handler for a failed wait, so *)
(* the claim is that such a query ends as it does with listeners attached: *)
(* rejected with a new Error carrying the message of the wait's error.     *)
C23_WaitFailed(c) ==
  Done(c, "query") /\ call[c].raised # Undefined /\ Len(call[c].calls) = 2

C23_ListenerIndependent ==
  \A c \in DOMAIN call :
    C23_WaitFailed(c) =>
      call[c].result = Rejected(ErrorValue("Error", call[c].raised.message))

(* C24: table handles are keyed by the pair (datasetName, tableName): the  *)
(* step in which a createTable(d1, t1) resolves leaves getTable(d2, t2) as *)
(* it was for every other pair, and getTable(d, t) returns a handle only   *)
(* when a createTable for exactly d and t has resolved.                    *)
C24_Resolves(c) ==
  /\ call[c].op = "createTable" /\ call[c].pc # "done"
  /\ call'[c].pc = "done" /\ call'[c].result.status = "resolved"

C24_Step ==
  /\ \A c \in DOMAIN call :
       C24_Resolves(c) =>
         \A d2 \in DatasetNames, t2 \in TableNames :
           <<d2, t2>> # <<call[c].d, call[c].t>> =>
             (getTable(d2, t2))' = getTable(d2, t2)
  /\ \A d \in DatasetNames, t \in TableNames :
       (getTable(d, t).status = "returned")' => <<d, t>> \in completedTables'

C24_KeyedByPair == [][C24_Step]_vars

(* C25: each piece of shared state is written only by its owning           *)
(* operation. A step of getDataset, getTable, insert, query, queryStream   *)
(* or updateAvailable leaves both registries and the connection as they    *)
(* were; a step of createDataSet changes at most the dataset entry under   *)
(* its own name; a step of createTable changes at most the table entry     *)
(* under the key of its own (datasetName, tableName); a step of init       *)
(* changes at most the connection.                                         *)
C25_Readers ==
  {"getDataset", "getTable", "insert", "query", "queryStream", "updateAvailable"}

C25_OthersKept(before, after, k) ==
  /\ DOMAIN after \subseteq DOMAIN before \cup {k}
  /\ \A x \in DOMAIN before : x # k => x \in DOMAIN after /\ after[x] = before[x]

C25_Step ==
  \A c \in DOMAIN call :
    call'[c] # call[c] =>
      LET rec == IF call[c].op = "idle" THEN call'[c] ELSE call[c]
      IN /\ rec.op \in C25_Readers =>
              datasets' = datasets /\ tables' = tables /\ client' = client
         /\ rec.op = "createDataSet" =>
              /\ tables' = tables /\ client' = client
              /\ C25_OthersKept(datasets, datasets', rec.d)
         /\ rec.op = "createTable" =>
              /\ datasets' = datasets /\ client' = client
              /\ C25_OthersKept(tables, tables', TableKey(rec.d, rec.t))
         /\ rec.op = "init" => datasets' = datasets /\ tables' = tables

C25_WrittenByOwner == [][C25_Step]_vars

C25_Witness ==
  \E c \in DOMAIN call :
    /\ Done(c, "createTable")
    /\ call[c].result.status = "resolved"
    /\ call[c].prev = Undefined
    /\ Cardinality(DOMAIN tables) >= 2
    /\ Cardinality(DOMAIN datasets) >= 2

(* C26: query is rejected with the joined execution errors only when the   *)
(* wait response lists at least one error; a response whose error list is  *)
(* absent or empty, with the job marked complete, makes query resolve with *)
(* exactly the rows of the response.                                       *)
C26_RowsUnlessErrors ==
  \A c \in DOMAIN call :
    Answered(c) =>
      /\ (call[c].result.status = "rejected" /\ call[c].local.jobComplete) =>
           call[c].local.errors # <<>>
      /\ (call[c].local.errors = <<>> /\ call[c].local.jobComplete) =>
           call[c].result = Resolved(call[c].local.rows)

(* C27 as stated, its outcome part: every public operation that was        *)
(* invoked and has ended did so by resolving or by rejecting the promise   *)
(* it returned.                                                            *)
C27_Ops == {"init", "createDataSet", "createTable", "insert", "query", "updateAvailable"}

C27_SettlesAsPromise ==
  \A c \in DOMAIN call :
    (call[c].op \in C27_Ops /\ call[c].pc = "done") =>
      call[c].result.status \in {"resolved", "rejected"}

(* C27 amended: when every remote call is answered, every invoked public   *)
(* operation ends, and ends once: no call waits forever, and a call that   *)
(* is no longer waiting has resolved, rejected, or thrown at the call site *)
(* before any remote call; the outcome it ended with stays                 *)
(* until the caller takes it, and the answer a call waits for can be       *)
(* delivered whatever the other call in flight is doing.                   *)
C27_Ended(c) ==
  /\ call[c].pc = "done"
  /\ call[c].result.status \in {"resolved", "rejected", "threw"}
  /\ call[c].result.status = "threw" => call[c].calls = <<>>

C27_Waiting(c) == call[c].op \in C27_Ops /\ call[c].pc # "done"

C27_EndsOnce ==
  \A c \in DOMAIN call :
    /\ call[c].pc = "done" =>
         call'[c].result = call[c].result \/ call'[c].op = "idle"
    /\ call[c].pc # "done" => call[c].result = NoResult

C27_EventuallySettles ==
  /\ \A c \in ConcurrentCalls : []<>(~C27_Waiting(c))
  /\ [](\A c \in ConcurrentCalls :
          (call[c].op \in C27_Ops /\ ~C27_Waiting(c)) => C27_Ended(c))
  /\ [][C27_EndsOnce]_vars
  /\ [](\A c \in ConcurrentCalls : C27_Waiting(c) => ENABLED Respond(c))

C27_Witness ==
  /\ call[1].op = "query" /\ call[1].pc = "done" /\ call[1].result.status = "resolved"
  /\ call[2].op = "createTable" /\ call[2].pc = "create"

====
